---- MODULE Spec2Model ----
(***************************************************************************)
(* Shift-reduce search of Parser.py: the CFG system, the dependency        *)
(* system and the recursive driver parseConfig, with the recursion made    *)
(* explicit as a stack of activation frames.                               *)
(*                                                                         *)
(* Conventions.  Python lists are sequences (index 1 is Python index 0).   *)
(* A Token is a record [symbol, index].  A grammar file is the sequence of *)
(* its lines, each line already split into its elements (split() for the   *)
(* CFG loader, split(":") for the dependency loader).  A dict is a         *)
(* function whose DOMAIN is its key set; the code only ever reads dicts    *)
(* with get(), so iteration order plays no part.  unicode.format is the    *)
(* tuple of its formatted arguments, integers rendered with ToString.      *)
(* The word "mötet" is written "motet".                                    *)
(***************************************************************************)
EXTENDS Integers, Sequences, FiniteSets, TLC

\* Longest input string (in words) that Init draws.
MaxLen == 4

\* Deepest stack of parseConfig activations the model follows; the
\* interpreter's recursion limit plays this part in a real run.
MaxDepth == 11

-----------------------------------------------------------------------------
\* Small helpers for Python list operations.

\* The tree printed as it was built, without reversed().
reversed_not(s) == s

\* reversed(s)
RECURSIVE reversed(_)
reversed(s) == IF s = <<>> THEN <<>> ELSE Append(reversed(Tail(s)), Head(s))

\* The elements of a list.
Range(f) == {f[x] : x \in DOMAIN f}

\* s[:-k] and s[-k:]
DropLast(s, k) == SubSeq(s, 1, Len(s) - k)
LastK(s, k) == SubSeq(s, Len(s) - k + 1, Len(s))

\* list.pop() written where list.pop(-2) is meant.
pop2_top(s) == DropLast(s, 1)

\* list.pop(-2) that removes nothing.
pop2_none(s) == s

\* list.pop(-2)
pop2(s) == Append(DropLast(s, 2), s[Len(s)])

\* dict.get(key, default) and dict[key] = value
DictGet(d, key, default) == IF key \in DOMAIN d THEN d[key] ELSE default
DictPut(d, key, value) ==
    [k \in (DOMAIN d) \cup {key} |-> IF k = key THEN value ELSE d[k]]

EmptyDict == [k \in {} |-> <<>>]

-----------------------------------------------------------------------------
\* Grammar loaders.

\* CFG.startSymbol
startSymbol == "S"

\* CFG.__init__: the loop over the lines of the file, from line i on.
RECURSIVE LoadCFG(_, _, _, _)
LoadCFG(lines, i, lexicon, rules) ==
    IF i > Len(lines) THEN [lexicon |-> lexicon, rules |-> rules]
    ELSE LET elements == lines[i] IN
         IF Len(elements) > 2 /\ elements[2] = "=>"
         THEN LoadCFG(lines, i + 1,
                      DictPut(lexicon, elements[3],
                              Append(DictGet(lexicon, elements[3], <<>>), elements[1])),
                      rules)
         ELSE IF Len(elements) > 2 /\ elements[2] = "-->"
         THEN LET key == SubSeq(elements, 3, Len(elements)) IN
              LoadCFG(lines, i + 1, lexicon,
                      DictPut(rules, key,
                              Append(DictGet(rules, key, <<>>), elements[1])))
         ELSE LoadCFG(lines, i + 1, lexicon, rules)

CFG(lines) == LoadCFG(lines, 1, EmptyDict, EmptyDict)

\* DepGrammar.__init__: the loop over the lines of the file, from line i on.
RECURSIVE LoadDep(_, _, _)
LoadDep(lines, i, rules) ==
    IF i > Len(lines) THEN [lexicon |-> EmptyDict, rules |-> rules]
    ELSE LET elements == lines[i] IN
         IF Len(elements) = 4 /\ (elements[3] = "LA" \/ elements[3] = "RA")
         THEN LET key == SubSeq(elements, 1, 2) IN
              LoadDep(lines, i + 1,
                      DictPut(rules, key,
                              Append(DictGet(rules, key, <<>>),
                                     SubSeq(elements, 3, 4))))
         ELSE LoadDep(lines, i + 1, rules)

DepGrammar(lines) == LoadDep(lines, 1, EmptyDict)

-----------------------------------------------------------------------------
\* Tokens, configurations, transitions.

\* Token.__init__ without the increment of line 48.
Token_noincrement(symbol, ctr) ==
    [token |-> [symbol |-> symbol, index |-> ctr], counter |-> ctr]

\* Token.__init__ with the class counter passed explicitly: the new token
\* and the counter after the call.
Token(symbol, ctr) ==
    [token |-> [symbol |-> symbol, index |-> ctr], counter |-> ctr + 1]

\* The loop of ShiftReduceCFG.__init__ / ShiftReduceDEP.__init__ that turns
\* the words of the input string into Token objects, appended to inputList:
\* the list and Token.counter when the loop is over.
RECURSIVE MakeInputList(_, _, _)
MakeInputList(words, inputList, ctr) ==
    IF words = <<>> THEN [inputList |-> inputList, counter |-> ctr]
    ELSE LET made == Token(Head(words), ctr)
         IN MakeInputList(Tail(words), Append(inputList, made.token), made.counter)

\* Config.__init__
Config(inputList) == [buffer |-> inputList, stack |-> <<>>, tree |-> <<>>]

\* Transit.__init__
Transit(transType, toState, fromState) ==
    [type |-> transType, toState |-> toState, fromState |-> fromState]

\* copy.copy(config) in the place of the deep copy: a new Config that holds
\* the lists of the original.
deepcopy_shallow(config) ==
    [buffer |-> config.buffer, stack |-> config.stack, tree |-> config.tree,
     shared |-> TRUE]

\* copy.deepcopy(config): a new Config whose lists and tokens are new
\* objects.  shared records whether the copy's lists are the very objects
\* of the original (never, for a deep copy).
deepcopy(config) ==
    [buffer |-> config.buffer, stack |-> config.stack, tree |-> config.tree,
     shared |-> FALSE]

Symbols(tokens) == [k \in 1..Len(tokens) |-> tokens[k].symbol]

\* The trace entry of the CFG system with the old token formatted before
\* the new one.
TreeEntry_swapped(newToken, oldToken) ==
    <<ToString(oldToken.index), oldToken.symbol,
      ToString(newToken.index), newToken.symbol>>

\* The trace entry u"{0}:{1}-{2}:{3}" of the CFG system.
TreeEntry(newToken, oldToken) ==
    <<ToString(newToken.index), newToken.symbol,
      ToString(oldToken.index), oldToken.symbol>>

\* The trace entries u"LA: {0}-{1}-{2}" and u"RA: {0}-{1}-{2}" of the
\* dependency system, with the arguments the code passes to format.
ArcEntry(transit) ==
    IF transit.type = "LA"
    THEN <<"LA", transit.fromState[2], transit.toState, transit.fromState[1]>>
    ELSE <<"RA", transit.fromState[1], transit.toState, transit.fromState[2]>>

-----------------------------------------------------------------------------
\* The CFG system.

\* ShiftReduceCFG.accepting without the test of the symbol.
acceptingCFG_anysymbol(config) ==
    /\ Len(config.stack) = 1
    /\ Len(config.buffer) = 0

\* ShiftReduceCFG.accepting without the test of the buffer.
acceptingCFG_nobuffer(config) ==
    /\ Len(config.stack) = 1
    /\ config.stack[Len(config.stack)].symbol = startSymbol

\* ShiftReduceCFG.accepting
acceptingCFG(config) ==
    /\ Len(config.stack) = 1
    /\ config.stack[Len(config.stack)].symbol = startSymbol
    /\ Len(config.buffer) = 0

\* ShiftReduceCFG.findTransits, the shift part, leaving the loop of line
\* 200 after its first turn.
ShiftTransitsCFG_first(grammar, config) ==
    IF Len(config.buffer) > 0
    THEN LET sym == config.buffer[1].symbol
             trans == DictGet(grammar.lexicon, sym, <<>>)
         IN IF trans = <<>> THEN <<>> ELSE <<Transit("shift", trans[1], sym)>>
    ELSE <<>>

\* ShiftReduceCFG.findTransits, the shift part.
ShiftTransitsCFG(grammar, config) ==
    IF Len(config.buffer) > 0
    THEN LET sym == config.buffer[1].symbol
             trans == DictGet(grammar.lexicon, sym, <<>>)
         IN [k \in 1..Len(trans) |-> Transit("shift", trans[k], sym)]
    ELSE <<>>

\* ShiftReduceCFG.findTransits, the reduce part, keeping the transitions
\* of the longest matching window only.
RECURSIVE ReduceTransitsCFG_longest(_, _, _)
ReduceTransitsCFG_longest(grammar, config, w) ==
    IF w > Len(config.stack) THEN <<>>
    ELSE LET key == Symbols(LastK(config.stack, w))
             trans == DictGet(grammar.rules, key, <<>>)
             longer == ReduceTransitsCFG_longest(grammar, config, w + 1)
         IN IF longer # <<>> THEN longer
            ELSE [k \in 1..Len(trans) |-> Transit("reduce", trans[k], key)]

\* ShiftReduceCFG.findTransits, the loop over the suffix windows of the
\* stack: w is the length of the window, 1 for i = len(stack) - 1 up to
\* len(stack) for i = 0.
RECURSIVE ReduceTransitsCFG(_, _, _)
ReduceTransitsCFG(grammar, config, w) ==
    IF w > Len(config.stack) THEN <<>>
    ELSE LET key == Symbols(LastK(config.stack, w))
             trans == DictGet(grammar.rules, key, <<>>)
         IN [k \in 1..Len(trans) |-> Transit("reduce", trans[k], key)]
            \o ReduceTransitsCFG(grammar, config, w + 1)

\* ShiftReduceCFG.findTransits
findTransitsCFG(grammar, config) ==
    ShiftTransitsCFG(grammar, config) \o ReduceTransitsCFG(grammar, config, 1)

\* ShiftReduceCFG.computeTransit.  The result names: returned, what the
\* call gives back ("config", "None" or the exception raised); newConfig,
\* the configuration returned; config, the argument object as the call
\* leaves it; counter and minted, Token.counter after the call and the
\* tokens created by it.
computeTransitCFG(config, transit, ctr) ==
    LET copy == deepcopy(config)
        made == Token(transit.toState, ctr)
        newToken == made.token
        m == Len(transit.fromState)
        out(returned, buf, stk, tree) ==
            [returned |-> returned,
             newConfig |-> [buffer |-> buf, stack |-> stk, tree |-> tree],
             config |-> IF copy.shared
                        THEN [buffer |-> buf, stack |-> stk, tree |-> tree]
                        ELSE config,
             counter |-> made.counter,
             minted |-> <<newToken>>]
    IN  IF transit.type = "shift"
        THEN IF Len(copy.buffer) = 0
             THEN out("IndexError", copy.buffer, copy.stack, copy.tree)
             ELSE out("config",
                      Tail(copy.buffer),
                      Append(copy.stack, newToken),
                      Append(copy.tree, TreeEntry(newToken, Head(copy.buffer))))
        ELSE IF transit.type = "reduce"
        THEN IF m > Len(copy.stack)
             THEN out("IndexError", copy.buffer, copy.stack, copy.tree)
             ELSE out("config",
                      copy.buffer,
                      Append(DropLast(copy.stack, m), newToken),
                      copy.tree \o
                        [k \in 1..m |->
                           TreeEntry(newToken, copy.stack[Len(copy.stack) - k + 1])])
        ELSE out("None", copy.buffer, copy.stack, copy.tree)

-----------------------------------------------------------------------------
\* The dependency system.

\* ShiftReduceDEP.accepting with <= 1 for == 1.
acceptingDEP_atmost1(config) ==
    /\ Len(config.stack) <= 1
    /\ Len(config.buffer) = 0

\* ShiftReduceDEP.accepting
acceptingDEP(config) ==
    /\ Len(config.stack) = 1
    /\ Len(config.buffer) = 0

\* ShiftReduceDEP.findTransits
findTransitsDEP(grammar, config) ==
    (IF Len(config.buffer) > 0
     THEN <<Transit("shift", config.buffer[1].symbol, "")>>
     ELSE <<>>)
    \o
    (IF Len(config.stack) > 1
     THEN LET key == <<config.stack[Len(config.stack) - 1].symbol,
                       config.stack[Len(config.stack)].symbol>>
              transitions == DictGet(grammar.rules, key, <<>>)
          IN [k \in 1..Len(transitions) |->
                Transit(transitions[k][1], transitions[k][2], key)]
     ELSE <<>>)

\* ShiftReduceDEP.computeTransit, with the result fields of
\* computeTransitCFG.
computeTransitDEP(config, transit, ctr) ==
    LET copy == deepcopy(config)
        n == Len(copy.stack)
        out(returned, buf, stk, tree) ==
            [returned |-> returned,
             newConfig |-> [buffer |-> buf, stack |-> stk, tree |-> tree],
             config |-> IF copy.shared
                        THEN [buffer |-> buf, stack |-> stk, tree |-> tree]
                        ELSE config,
             counter |-> ctr,
             minted |-> <<>>]
    IN  IF transit.type = "shift"
        THEN IF Len(copy.buffer) = 0
             THEN out("IndexError", copy.buffer, copy.stack, copy.tree)
             ELSE out("config", Tail(copy.buffer),
                      Append(copy.stack, Head(copy.buffer)), copy.tree)
        ELSE IF transit.type = "LA"
        THEN IF n < 2
             THEN out("IndexError", copy.buffer, copy.stack,
                      Append(copy.tree, ArcEntry(transit)))
             ELSE out("config", copy.buffer, pop2(copy.stack),
                      Append(copy.tree, ArcEntry(transit)))
        ELSE IF transit.type = "RA"
        THEN IF n < 1
             THEN out("IndexError", copy.buffer, copy.stack,
                      Append(copy.tree, ArcEntry(transit)))
             ELSE out("config", copy.buffer, DropLast(copy.stack, 1),
                      Append(copy.tree, ArcEntry(transit)))
        ELSE out("config", copy.buffer, copy.stack, copy.tree)

-----------------------------------------------------------------------------
\* The two systems behind the one interface parseConfig uses.

accepting(kind, config) ==
    IF kind = "CFG" THEN acceptingCFG(config) ELSE acceptingDEP(config)

findTransits(kind, grammar, config) ==
    IF kind = "CFG" THEN findTransitsCFG(grammar, config)
    ELSE findTransitsDEP(grammar, config)

computeTransit(kind, config, transit, ctr) ==
    IF kind = "CFG" THEN computeTransitCFG(config, transit, ctr)
    ELSE computeTransitDEP(config, transit, ctr)

-----------------------------------------------------------------------------
\* Inputs: grammar files and input strings.

\* Grammar files for the CFG loader, each line split on whitespace.
AnBnFile ==
    << <<"a", "=>", "a">>, <<"b", "=>", "b">>,
       <<"S", "-->", "a", "S", "b">>, <<"S", "-->", "a", "b">> >>

UnaryFile == AnBnFile \o << <<"S", "-->", "S">> >>

AmbigFile ==
    << <<"X", "=>", "a">>, <<"S", "=>", "a">>, <<"Y", "=>", "b">>,
       <<"#", "lexicon", "ends">>, <<"S", "-->">>,
       <<"S", "-->", "X", "Y">>, <<"X", "-->", "X", "Y">>,
       <<"S", "-->", "X", "X", "Y">>, <<"Y", "-->", "X", "Y">> >>

\* A rule file in which a lexicon line and a rule line are written twice.
DupFile ==
    << <<"X", "=>", "a">>, <<"X", "=>", "a">>, <<"Y", "=>", "b">>,
       <<"S", "-->", "X", "Y">>, <<"S", "-->", "X", "Y">> >>

\* Grammar files for the dependency loader, each line split on ":".
DepFile ==
    << <<"jag", "var", "LA", "subj">>, <<"var", "motet", "RA", "obl">> >>

DepAmbigFile ==
    << <<"jag", "var", "LA", "subj">>, <<"jag", "var", "RA", "obj">>,
       <<"var", "var", "LA", "adv">>, <<"var", "jag", "XX", "subj">>,
       <<"motet", "var", "RA">>, <<"var", "motet", "RA", "obl">>,
       <<"# dependencies">> >>

Systems ==
    { [kind |-> "CFG", file |-> f] : f \in {AnBnFile, UnaryFile, AmbigFile, DupFile} }
    \cup { [kind |-> "DEP", file |-> f] : f \in {DepFile, DepAmbigFile} }

Words(kind) == IF kind = "CFG" THEN {"a", "b"} ELSE {"jag", "var", "motet"}

\* inputString.split(): the input strings of at most MaxLen words.
InputStrings(kind) ==
    UNION { [1..n -> Words(kind)] : n \in 0..MaxLen }

-----------------------------------------------------------------------------
\* State.

VARIABLES
    kind,         \* which system class is constructed: "CFG" or "DEP"
    file,         \* the lines of the grammar file named to the constructor
    inputString,  \* system.inputString, as its words
    grammar,      \* system.grammar: [lexicon, rules]
    inputList,    \* system.inputList
    counter,      \* Token.counter
    frames,       \* the activations of parseConfig, outermost first
    output,       \* what has been printed: one record per "Valid parse" block
    status,       \* "init", "running", "done", "error", "overflow", "applied"
    order,        \* the direction in which line 405 walks the transits
    earlier,      \* the output of the run before this one, if any
    created,      \* history: the index of every Token created, in order
    derivs,       \* history: the transition sequence of every block printed
    last          \* history: the latest call of computeTransit

vars == <<kind, file, inputString, grammar, inputList, counter, frames,
          output, status, order, earlier, created, derivs, last>>

system == <<kind, file, inputString, grammar>>

\* The activation on top of the recursion.
top == frames[Len(frames)]

\* A transition as it is written in derivs: the source of a shift wrapped
\* so that sources are tuples throughout.
Label(t) ==
    <<t.type, t.toState,
      IF t.type = "shift" THEN <<t.fromState>> ELSE t.fromState>>

\* A fresh activation of parseConfig(system, config).
Frame(config, path) ==
    [config |-> config, transits |-> <<>>, i |-> 0, pc |-> "entry",
     path |-> path]

\* The transit the for loop of line 405 takes at its i-th turn.
Nth(transits, i) ==
    IF order = "fwd" THEN transits[i] ELSE transits[Len(transits) - i + 1]

\* The return of an activation to its caller.
Return ==
    /\ frames' = DropLast(frames, 1)
    /\ status' = IF Len(frames) = 1 THEN "done" ELSE "running"

Init ==
    /\ \E s \in Systems :
          /\ kind = s.kind
          /\ file = s.file
          /\ inputString \in InputStrings(s.kind)
    /\ grammar = [lexicon |-> EmptyDict, rules |-> EmptyDict]
    /\ inputList = <<>>
    /\ counter = 0
    /\ frames = <<>>
    /\ output = <<>>
    /\ status = "init"
    /\ order = "fwd"
    /\ earlier = <<>>
    /\ created = <<>>
    /\ derivs = <<>>
    /\ last = <<>>

\* __main__: construct the system, take its initial configuration and call
\* parseConfig on it.
Main ==
    /\ status = "init"
    /\ grammar' = IF kind = "CFG" THEN CFG(file) ELSE DepGrammar(file)
    /\ inputList' = MakeInputList(inputString, <<>>, counter).inputList
    /\ counter' = MakeInputList(inputString, <<>>, counter).counter
    /\ created' = created \o [k \in 1..Len(inputString) |-> inputList'[k].index]
    /\ frames' = <<Frame(Config(inputList'), <<>>)>>
    /\ status' = "running"
    /\ UNCHANGED <<kind, file, inputString, output, order, earlier, derivs, last>>

\* parseConfig, lines 386-396: the configuration is accepting, its tree is
\* printed in reverse and the activation returns.
Emit ==
    /\ status = "running"
    /\ top.pc = "entry"
    /\ accepting(kind, top.config)
    /\ output' = Append(output, [header |-> inputString,
                                 lines |-> reversed(top.config.tree)])
    /\ derivs' = Append(derivs, top.path)
    /\ Return
    /\ UNCHANGED <<system, inputList, counter, order, earlier, created, last>>

\* parseConfig, lines 399-402: the configuration is not accepting and its
\* transitions are looked up.
Find ==
    /\ status = "running"
    /\ top.pc = "entry"
    /\ ~accepting(kind, top.config)
    /\ frames' = [frames EXCEPT ![Len(frames)] =
                    [@ EXCEPT !.transits = findTransits(kind, grammar, top.config),
                              !.i = 1, !.pc = "loop"]]
    /\ UNCHANGED <<system, inputList, counter, output, status, order, earlier,
                   created, derivs, last>>

\* parseConfig, lines 405-406: one turn of the loop computes the next
\* transit on the activation's configuration and calls parseConfig on the
\* result.  The root configuration's buffer is system.inputList itself.
Recurse ==
    /\ status = "running"
    /\ top.pc = "loop"
    /\ top.i <= Len(top.transits)
    /\ Len(frames) < MaxDepth
    /\ LET transit == Nth(top.transits, top.i)
           r == computeTransit(kind, top.config, transit, counter)
       IN  /\ counter' = r.counter
           /\ created' = created \o [k \in 1..Len(r.minted) |-> r.minted[k].index]
           /\ inputList' = IF Len(frames) = 1 THEN r.config.buffer ELSE inputList
           /\ last' = <<[config |-> top.config, transit |-> transit, result |-> r]>>
           /\ IF r.returned = "config"
              THEN /\ frames' = Append(
                          [frames EXCEPT ![Len(frames)] =
                              [@ EXCEPT !.config = r.config, !.i = top.i + 1]],
                          Frame(r.newConfig, Append(top.path, Label(transit))))
                   /\ status' = status
              ELSE \* an exception leaves computeTransit, or None is handed
                   \* to accepting, which raises: the run is aborted
                   /\ frames' = [frames EXCEPT ![Len(frames)] =
                                    [@ EXCEPT !.config = r.config]]
                   /\ status' = "error"
    /\ UNCHANGED <<system, output, order, earlier, derivs>>

\* parseConfig, line 405: the loop is over and the activation returns.
Exhausted ==
    /\ status = "running"
    /\ top.pc = "loop"
    /\ top.i > Len(top.transits)
    /\ Return
    /\ UNCHANGED <<system, inputList, counter, output, order, earlier, created,
                   derivs, last>>

\* The recursion of line 406 is deeper than the model follows.
Overflow ==
    /\ status = "running"
    /\ top.pc = "loop"
    /\ top.i <= Len(top.transits)
    /\ Len(frames) >= MaxDepth
    /\ status' = "overflow"
    /\ UNCHANGED <<system, inputList, counter, frames, output, order, earlier,
                   created, derivs, last>>

Next == Main \/ Emit \/ Find \/ Recurse \/ Exhausted \/ Overflow

Spec == Init /\ [][Next]_vars

\* The program is run a second time on the same grammar file and input
\* string, in a new process (Token.counter starts at 0 again), with the loop
\* of line 405 walking the transits from the last to the first.
Rerun ==
    /\ status = "done"
    /\ order = "fwd"
    /\ earlier' = <<[output |-> output, derivs |-> derivs]>>
    /\ order' = "rev"
    /\ status' = "init"
    /\ grammar' = [lexicon |-> EmptyDict, rules |-> EmptyDict]
    /\ inputList' = <<>>
    /\ counter' = 0
    /\ frames' = <<>>
    /\ output' = <<>>
    /\ created' = <<>>
    /\ derivs' = <<>>
    /\ last' = <<>>
    /\ UNCHANGED <<kind, file, inputString>>

NextOrder == Next \/ Rerun

SpecOrder == Init /\ [][NextOrder]_vars

\* The transition kinds computeTransit of each system has a branch for.
SupportedKinds(k) ==
    IF k = "CFG" THEN {"shift", "reduce"} ELSE {"shift", "LA", "RA"}

OtherKinds(k) == {"shift", "reduce", "LA", "RA", "swap"} \ SupportedKinds(k)

\* A caller hands system.computeTransit a configuration of the search and
\* a transition of a kind the system has no branch for.
Apply ==
    /\ status = "running"
    /\ top.pc = "loop"
    /\ \E n \in 1..Len(top.transits), k \in OtherKinds(kind) :
          LET transit == Transit(k, top.transits[n].toState, top.transits[n].fromState)
              r == computeTransit(kind, top.config, transit, counter)
          IN  /\ counter' = r.counter
              /\ created' = created \o [j \in 1..Len(r.minted) |-> r.minted[j].index]
              /\ inputList' = IF Len(frames) = 1 THEN r.config.buffer ELSE inputList
              /\ frames' = [frames EXCEPT ![Len(frames)] =
                               [@ EXCEPT !.config = r.config]]
              /\ last' = <<[config |-> top.config, transit |-> transit, result |-> r]>>
    /\ status' = "applied"
    /\ UNCHANGED <<system, output, order, earlier, derivs>>

NextApply == Next \/ Apply

SpecApply == Init /\ [][NextApply]_vars

-----------------------------------------------------------------------------
\* Termination of the search.

\* What accepting and findTransits read of a configuration: the symbols of
\* its stack and of its buffer.
SymbolView(config) ==
    [stack |-> Symbols(config.stack), buffer |-> Symbols(config.buffer)]

\* C1: the search started on the initial configuration terminates for
\* every rule table the loader builds, a single-symbol right-hand side
\* included: no branch is an infinite sequence of configurations.  A
\* branch of the recursion is the chain of configurations of the open
\* activations; accepting and findTransits depend on the symbols alone and
\* the symbol views of one input are finitely many, so a branch is infinite
\* exactly when it comes back to a symbol view it has passed through.
C1_SearchTerminates ==
    \A j, k \in 1..Len(frames) :
        j < k => SymbolView(frames[j].config) # SymbolView(frames[k].config)

-----------------------------------------------------------------------------
\* The derivations a grammar licenses, read off its tables without the
\* search: transitions are labels <<kind, target, source>> and
\* configurations are symbol views.

TableTransitions ==
    IF kind = "CFG"
    THEN {<<"shift", lhs, <<w>>>> :
             w \in DOMAIN grammar.lexicon, lhs \in UNION {Range(grammar.lexicon[x]) : x \in DOMAIN grammar.lexicon}}
         \cup {<<"reduce", lhs, key>> :
             key \in DOMAIN grammar.rules, lhs \in UNION {Range(grammar.rules[x]) : x \in DOMAIN grammar.rules}}
    ELSE {<<"shift", w, <<"">>>> : w \in Range(inputString)}
         \cup {<<arc[1], arc[2], key>> :
             key \in DOMAIN grammar.rules, arc \in UNION {Range(grammar.rules[x]) : x \in DOMAIN grammar.rules}}

\* Transition t is one the tables license in symbol view v.
Licensed(t, v) ==
    IF t[1] = "shift"
    THEN /\ v.buffer # <<>>
         /\ IF kind = "CFG"
            THEN /\ t[3] = <<Head(v.buffer)>>
                 /\ Head(v.buffer) \in DOMAIN grammar.lexicon
                 /\ t[2] \in Range(grammar.lexicon[Head(v.buffer)])
            ELSE t[2] = Head(v.buffer)
    ELSE /\ Len(t[3]) <= Len(v.stack)
         /\ LastK(v.stack, Len(t[3])) = t[3]
         /\ t[3] \in DOMAIN grammar.rules
         /\ IF kind = "CFG"
            THEN t[2] \in Range(grammar.rules[t[3]])
            ELSE <<t[1], t[2]>> \in Range(grammar.rules[t[3]])

\* The symbol view after transition t.
After(t, v) ==
    IF t[1] = "shift"
    THEN [stack |-> Append(v.stack, t[2]), buffer |-> Tail(v.buffer)]
    ELSE IF t[1] = "reduce"
    THEN [stack |-> Append(DropLast(v.stack, Len(t[3])), t[2]), buffer |-> v.buffer]
    ELSE IF t[1] = "LA"
    THEN [stack |-> Append(DropLast(v.stack, 2), v.stack[Len(v.stack)]),
          buffer |-> v.buffer]
    ELSE [stack |-> DropLast(v.stack, 1), buffer |-> v.buffer]

AcceptingView(v) ==
    /\ Len(v.stack) = 1
    /\ v.buffer = <<>>
    /\ kind = "CFG" => v.stack[1] = startSymbol

\* The licensed transition sequences of at most n steps that lead from
\* symbol view v to an accepting one.
RECURSIVE LicensedDerivations(_, _)
LicensedDerivations(v, n) ==
    (IF AcceptingView(v) THEN {<<>>} ELSE {})
    \cup
    (IF n = 0 THEN {}
     ELSE UNION { { <<t>> \o d : d \in LicensedDerivations(After(t, v), n - 1) } :
                  t \in {u \in TableTransitions : Licensed(u, v)} })

\* C2: when the search is over, the derivations it has emitted are exactly
\* the transition sequences that lead from the initial configuration to an
\* accepting one by steps the grammar's tables license: none is missing
\* and none has an unlicensed step.
C2_EmittedAreExactlyLicensed ==
    status = "done" =>
        Range(derivs) =
            LicensedDerivations([stack |-> <<>>, buffer |-> inputString], MaxDepth)

-----------------------------------------------------------------------------
\* Frame and bookkeeping properties of computeTransit.

Min(a, b) == IF a < b THEN a ELSE b

\* C3: computeTransit of either system leaves its argument as it was:
\* every step of the search keeps the configuration of each open
\* activation and the system's input list (the buffer of the initial
\* configuration) unchanged, and the argument of the latest call is, after
\* the call, structurally equal to what it was before.
C3_ComputeTransitKeepsInput ==
    [][status = "running" =>
          /\ inputList' = inputList
          /\ \A k \in 1..Min(Len(frames), Len(frames')) :
                 frames'[k].config = frames[k].config
          /\ last' # <<>> => last'[1].result.config = last'[1].config]_vars

\* Two sibling branches have been started from the root configuration.
C3_Witness ==
    /\ status = "running"
    /\ Len(frames) >= 2
    /\ frames[1].i > 2
    /\ last # <<>>
    /\ last[1].config = Config(inputList)

Tokens(config) == Range(config.buffer) \cup Range(config.stack)

\* C5: over construction and search, every Token created has an index
\* strictly greater than that of every Token created before it, and a
\* call of computeTransit gives the tokens it copies no new index: each
\* token of the result is a token of the argument or the one created by
\* the call.
C5_IdentifiersIncrease ==
    /\ \A i, j \in 1..Len(created) : i < j => created[i] < created[j]
    /\ last # <<>> =>
          /\ Tokens(last[1].result.newConfig)
                \subseteq Tokens(last[1].config) \cup Range(last[1].result.minted)
          /\ Len(last[1].result.minted) <= 1

\* A CFG search is over and has created tokens beyond those of the input.
C5_Witness ==
    /\ status = "done"
    /\ kind = "CFG"
    /\ Len(created) > Len(inputString) + 2
    /\ output # <<>>

\* C6: in the dependency system a LeftArc on a stack of two or more
\* appends one trace entry, removes the second-from-top element and keeps
\* the top; a RightArc appends one trace entry, removes the top and keeps
\* the second-from-top; buffer and the rest of the stack stay as they were
\* and the stack is one shorter.
C6_ArcEffect ==
    (kind = "DEP" /\ last # <<>>) =>
        LET c == last[1].config
            t == last[1].transit
            n == last[1].result.newConfig
            d == Len(c.stack)
        IN  (t.type \in {"LA", "RA"} /\ d >= 2) =>
               /\ last[1].result.returned = "config"
               /\ Len(n.tree) = Len(c.tree) + 1
               /\ SubSeq(n.tree, 1, Len(c.tree)) = c.tree
               /\ n.buffer = c.buffer
               /\ Len(n.stack) = d - 1
               /\ \A k \in 1..(d - 2) : n.stack[k] = c.stack[k]
               /\ n.stack[d - 1] = IF t.type = "LA" THEN c.stack[d] ELSE c.stack[d - 1]

\* A LeftArc has been applied to a stack of three.
C6_Witness ==
    /\ kind = "DEP"
    /\ last # <<>>
    /\ last[1].transit.type = "LA"
    /\ Len(last[1].config.stack) >= 3

-----------------------------------------------------------------------------
\* Exploration order.

\* The traces of the blocks printed.
Traces(out) == {out[k].lines : k \in 1..Len(out)}

\* A trace entry without the token indices in it: a CFG entry keeps its two
\* symbols, an arc entry holds no index.
NoIndex(entry) == IF kind = "CFG" THEN <<entry[2], entry[4]>> ELSE entry

TracesNoIndex(out) ==
    { [j \in 1..Len(out[k].lines) |-> NoIndex(out[k].lines[j])] : k \in 1..Len(out) }

\* C4 as claimed: a run that walks the transits in the other order emits
\* the same set of traces as the run that walks them in list order.
C4_SameTracesInAnyOrder ==
    (status = "done" /\ earlier # <<>>) =>
        Traces(output) = Traces(earlier[1].output)

\* C4 as amended: a run that walks the transits in the other order accepts
\* the same set of transition sequences, and emits the same set of traces
\* once the token indices in the entries are left out.
C4_SameDerivationsInAnyOrder ==
    (status = "done" /\ earlier # <<>>) =>
        /\ Range(derivs) = Range(earlier[1].derivs)
        /\ TracesNoIndex(output) = TracesNoIndex(earlier[1].output)

\* Both runs are over and have emitted several derivations of a CFG
\* input, in different enumeration orders.
C4_Witness ==
    /\ status = "done"
    /\ earlier # <<>>
    /\ kind = "CFG"
    /\ Len(derivs) >= 2
    /\ derivs # earlier[1].derivs

-----------------------------------------------------------------------------
\* Dependency trace entries and unsupported kinds.

\* C7: the trace entry of an arc names head and dependent by token index:
\* a LeftArc records (index of the top token, relation, index of the
\* second-from-top token), a RightArc (index of the second-from-top token,
\* relation, index of the top token).
C7_ArcEntryNamesIndices ==
    (kind = "DEP" /\ last # <<>> /\ last[1].transit.type \in {"LA", "RA"}) =>
        LET c == last[1].config
            t == last[1].transit
            n == last[1].result.newConfig
            first == ToString(c.stack[Len(c.stack)].index)
            second == ToString(c.stack[Len(c.stack) - 1].index)
        IN  n.tree[Len(n.tree)] =
                IF t.type = "LA" THEN <<"LA", first, t.toState, second>>
                ELSE <<"RA", second, t.toState, first>>

\* C8: computeTransit called with a kind its system does not support ends
\* in an error: it returns neither a configuration nor None.
C8_UnsupportedKindIsError ==
    status = "applied" =>
        last[1].result.returned \notin {"config", "None"}

-----------------------------------------------------------------------------
\* End-to-end scenarios.

\* w is a^n b^n for some n >= 1.
IsAnBn(w) ==
    \E n \in 1..Len(w) :
        /\ Len(w) = 2 * n
        /\ \A k \in 1..n : w[k] = "a" /\ w[n + k] = "b"

\* C9: under the grammar a => a, b => b, S --> a S b, S --> a b the search
\* ends without error for every input over {a, b}; it has emitted a
\* derivation when it ends exactly if the input is a^n b^n with n >= 1,
\* and for any other input it never emits anything.
C9_AnBn ==
    (kind = "CFG" /\ file = AnBnFile) =>
        /\ status \notin {"error", "overflow"}
        /\ status = "done" => (output # <<>> <=> IsAnBn(inputString))
        /\ ~IsAnBn(inputString) => output = <<>>

\* The search on "a a b b" is over and has emitted a derivation.
C9_Witness ==
    /\ kind = "CFG"
    /\ file = AnBnFile
    /\ inputString = <<"a", "a", "b", "b">>
    /\ status = "done"
    /\ Len(output) >= 1

\* The direction and relation of each arc entry of a trace.
Arcs(lines) == [k \in 1..Len(lines) |-> <<lines[k][1], lines[k][3]>>]

ShiftAll3 ==
    << <<"shift", "jag", <<"">>>>, <<"shift", "var", <<"">>>>,
       <<"shift", "motet", <<"">>>>,
       <<"RA", "obl", <<"var", "motet">>>>, <<"LA", "subj", <<"jag", "var">>>> >>

ArcEarly ==
    << <<"shift", "jag", <<"">>>>, <<"shift", "var", <<"">>>>,
       <<"LA", "subj", <<"jag", "var">>>>,
       <<"shift", "motet", <<"">>>>, <<"RA", "obl", <<"var", "motet">>>> >>

Scenario3 ==
    /\ kind = "DEP"
    /\ file = DepFile
    /\ inputString = <<"jag", "var", "motet">>
    /\ status = "done"

\* C10 as claimed: with the rules jag:var:LA:subj and var:motet:RA:obl the
\* search on "jag var motet" accepts after shifting all three words and
\* then applying the arcs, and what it emits is one LA-subj line and one
\* RA-obl line, in reverse construction order.
C10_EmitsOneLAOneRA ==
    Scenario3 =>
        /\ derivs = <<ShiftAll3>>
        /\ Len(output) = 1
        /\ Arcs(output[1].lines) = << <<"LA", "subj">>, <<"RA", "obl">> >>

\* C10 as amended: the search accepts twice, first after shifting all
\* three words and then applying RA and LA, then after applying LA before
\* "motet" is shifted; each of the two blocks it emits is one LA-subj line
\* and one RA-obl line in reverse construction order.
C10_EmitsTwoDerivations ==
    Scenario3 =>
        /\ derivs = <<ShiftAll3, ArcEarly>>
        /\ Len(output) = 2
        /\ Arcs(output[1].lines) = << <<"LA", "subj">>, <<"RA", "obl">> >>
        /\ Arcs(output[2].lines) = << <<"RA", "obl">>, <<"LA", "subj">> >>

\* The search of scenario 3 is over and its last activation accepted with
\* a stack of one token and an empty buffer.
C10_Witness ==
    /\ Scenario3
    /\ output # <<>>
    /\ Len(last[1].result.newConfig.stack) = 1
    /\ last[1].result.newConfig.buffer = <<>>

-----------------------------------------------------------------------------
\* Acceptance.

\* An activation at its entry takes the accepting branch: a block is
\* printed by the step.
Accepts == Len(output') = Len(output) + 1

\* C11: the CFG system accepts a configuration exactly if its stack holds
\* one token, that token's symbol is the start symbol "S" and its buffer is
\* empty: every activation of parseConfig prints a block at its entry if its
\* configuration is of that form and looks for transitions if it is not.
C11_AcceptingCFG ==
    [][(kind = "CFG" /\ status = "running" /\ top.pc = "entry") =>
          (Accepts <=>
              /\ Symbols(top.config.stack) = <<"S">>
              /\ top.config.buffer = <<>>)]_vars

\* The CFG system has refused a configuration whose stack is the start
\* symbol alone, its buffer not being empty.
C11_Witness ==
    /\ kind = "CFG"
    /\ status = "running"
    /\ top.pc = "loop"
    /\ Symbols(top.config.stack) = <<"S">>
    /\ top.config.buffer # <<>>

\* C12: the dependency system accepts a configuration exactly if its stack
\* holds one token and its buffer is empty, whatever the token's symbol; the
\* initial configuration of an empty input is not accepted.
C12_AcceptingDEP ==
    [][(kind = "DEP" /\ status = "running" /\ top.pc = "entry") =>
          (Accepts <=>
              /\ Len(top.config.stack) = 1
              /\ top.config.buffer = <<>>)]_vars

\* The search on the empty input is over and nothing was printed.
C12_Witness ==
    /\ kind = "DEP"
    /\ inputString = <<>>
    /\ status = "done"
    /\ output = <<>>

-----------------------------------------------------------------------------
\* Discovery of CFG transitions.

\* The lines of the rule file that are lexicon lines for terminal w.
LexiconLines(w) ==
    {n \in 1..Len(file) :
        Len(file[n]) > 2 /\ file[n][2] = "=>" /\ file[n][3] = w}

IsShift(t) == t.type = "shift"
IsReduce(t) == t.type = "reduce"

\* Every turn of a loop that took a Shift started its own activation from
\* the configuration of the activation that runs the loop: the child's
\* buffer is the parent's without its first token, its stack the parent's
\* with one token of the transition's target on top; and an activation
\* returns only when its loop has taken every transit.
ShiftBranches ==
    /\ \A k \in 1..(Len(frames) - 1) :
          LET f == frames[k]
              t == Nth(f.transits, f.i - 1)
              c == frames[k + 1].config
          IN  /\ frames[k + 1].path = Append(f.path, Label(t))
              /\ IsShift(t) =>
                    /\ c.buffer = Tail(f.config.buffer)
                    /\ DropLast(c.stack, 1) = f.config.stack
                    /\ c.stack[Len(c.stack)].symbol = t.toState
    /\ (status = "running" /\ Len(frames') < Len(frames) /\ top.pc = "loop")
          => top.i = Len(top.transits) + 1
    /\ (status = "running" /\ Len(frames') > Len(frames) /\ Len(frames) > 0)
          => frames'[Len(frames)].i = top.i + 1

\* C13 as claimed: when the terminal of the first buffer token has k
\* distinct left-hand sides in the lexicon, findTransits gives exactly k
\* Shift transitions, and the driver starts a branch of its own for each
\* of them from the same parent configuration.
C13_ShiftPerDistinctCandidate ==
    [][kind = "CFG" =>
          /\ \A k \in 1..Len(frames) :
                (frames[k].pc = "loop" /\ frames[k].config.buffer # <<>>) =>
                    Len(SelectSeq(frames[k].transits, IsShift)) =
                        Cardinality({file[n][1] :
                            n \in LexiconLines(frames[k].config.buffer[1].symbol)})
          /\ ShiftBranches]_vars

\* C13 as amended: findTransits gives one Shift transition for every
\* lexicon line of the rule file that names the terminal of the first
\* buffer token (k of them for k distinct left-hand sides when no such line
\* is written twice, none when the terminal is not in the lexicon), and the
\* driver starts a branch of its own for each of them from the same parent
\* configuration.
C13_ShiftPerLexiconLine ==
    [][kind = "CFG" =>
          /\ \A k \in 1..Len(frames) :
                (frames[k].pc = "loop" /\ frames[k].config.buffer # <<>>) =>
                    Len(SelectSeq(frames[k].transits, IsShift)) =
                        Cardinality(LexiconLines(frames[k].config.buffer[1].symbol))
          /\ ShiftBranches]_vars

\* A search is over in which two Shift transitions for the first word
\* each gave a derivation of its own: two blocks whose oldest entries, the
\* shifts of the first word, name different new tokens.
C13_Witness ==
    /\ kind = "CFG"
    /\ status = "done"
    /\ \E a, b \in 1..Len(output) :
          /\ derivs[a] = derivs[b]
          /\ output[a].lines[Len(output[a].lines)]
                # output[b].lines[Len(output[b].lines)]

-----------------------------------------------------------------------------
\* The accepting branch of parseConfig.

\* C14: an activation of parseConfig whose configuration is accepting
\* prints one block, the entries of the configuration's tree from the last
\* appended to the first, and returns; it finds and applies no transition,
\* so no open activation below the top, and none that is in its loop, has
\* an accepting configuration.
C14_EmitReversedOnceAndStop ==
    [][/\ (status = "running" /\ top.pc = "entry"
              /\ AcceptingView(SymbolView(top.config))) =>
             LET tree == top.config.tree IN
             /\ Len(output') = Len(output) + 1
             /\ SubSeq(output', 1, Len(output)) = output
             /\ output'[Len(output')].lines =
                    [j \in 1..Len(tree) |-> tree[Len(tree) - j + 1]]
             /\ frames' = DropLast(frames, 1)
             /\ counter' = counter
             /\ last' = last
       /\ \A k \in 1..Len(frames) :
             AcceptingView(SymbolView(frames[k].config)) =>
                 (k = Len(frames) /\ frames[k].pc = "entry")]_vars

\* A block of three or more trace entries has been printed.
C14_Witness ==
    /\ output # <<>>
    /\ Len(output[Len(output)].lines) >= 3
    /\ output[Len(output)].lines[1] # output[Len(output)].lines[3]

-----------------------------------------------------------------------------
\* The keys of the rules table.

\* C15: every key of the rules table the CFG loader builds is a tuple of
\* two or more right-hand-side symbols, whatever rule file it is given; so
\* every Reduce the search applies has a source of two or more symbols and
\* leaves the stack shorter than it was.
C15_RuleKeysHaveTwoSymbols ==
    kind = "CFG" =>
        /\ \A key \in DOMAIN grammar.rules : Len(key) >= 2
        /\ (last # <<>> /\ IsReduce(last[1].transit)) =>
              /\ Len(last[1].transit.fromState) >= 2
              /\ Len(last[1].result.newConfig.stack) < Len(last[1].config.stack)

\* C19: in an accepting configuration of either system findTransits gives
\* no transition, so a branch that stops where it accepts leaves no
\* derivation unexplored.
C19_NoTransitsWhereAccepting ==
    (status = "running" /\ top.pc = "entry"
        /\ AcceptingView(SymbolView(top.config))) =>
            findTransits(kind, grammar, top.config) = <<>>

-----------------------------------------------------------------------------
\* Application of CFG transitions.

\* C16: a CFG Reduce with a source of m symbols pops the m topmost stack
\* tokens, rightmost first, creates one token whose symbol is the
\* transition's target, appends m trace entries, the j-th pairing the new
\* token's index and symbol with those of the j-th token popped, pushes the
\* new token, and leaves the buffer and the stack below the window as they
\* were.
C16_ReduceEffect ==
    (kind = "CFG" /\ last # <<>> /\ IsReduce(last[1].transit)) =>
        LET c == last[1].config
            t == last[1].transit
            r == last[1].result
            n == r.newConfig
            m == Len(t.fromState)
            d == Len(c.stack)
        IN  /\ r.returned = "config"
            /\ Len(r.minted) = 1
            /\ r.minted[1].symbol = t.toState
            /\ n.buffer = c.buffer
            /\ Len(n.stack) = d - m + 1
            /\ \A k \in 1..(d - m) : n.stack[k] = c.stack[k]
            /\ n.stack[d - m + 1] = r.minted[1]
            /\ Len(n.tree) = Len(c.tree) + m
            /\ SubSeq(n.tree, 1, Len(c.tree)) = c.tree
            /\ \A j \in 1..m :
                  n.tree[Len(c.tree) + j] =
                      <<ToString(r.minted[1].index), r.minted[1].symbol,
                        ToString(c.stack[d - j + 1].index), c.stack[d - j + 1].symbol>>

\* A Reduce of two or more tokens has been applied to a stack that holds
\* more than the window.
C16_Witness ==
    /\ kind = "CFG"
    /\ last # <<>>
    /\ IsReduce(last[1].transit)
    /\ Len(last[1].transit.fromState) >= 2
    /\ Len(last[1].config.stack) > Len(last[1].transit.fromState)

\* The lines of the rule file that are non-terminal rules, and the
\* right-hand side of such a line.
RuleLines == {n \in 1..Len(file) : Len(file[n]) > 2 /\ file[n][2] = "-->"}
RightHandSide(n) == SubSeq(file[n], 3, Len(file[n]))

\* key is the tuple of the symbols of a suffix window of the stack.
IsSuffixWindow(key, stack) ==
    /\ Len(key) >= 1
    /\ Len(key) <= Len(stack)
    /\ \A j \in 1..Len(key) :
          key[j] = stack[Len(stack) - Len(key) + j].symbol

\* The Reduce transitions found in an activation's configuration, as pairs
\* (source, target).
ReducePairs(f) ==
    LET reduces == SelectSeq(f.transits, IsReduce)
    IN {<<reduces[j].fromState, reduces[j].toState>> : j \in 1..Len(reduces)}

\* The pairs (suffix window, left-hand side) the rule file holds a rule for.
RulePairs(f) ==
    {<<RightHandSide(n), file[n][1]>> :
        n \in {u \in RuleLines : IsSuffixWindow(RightHandSide(u), f.config.stack)}}

\* C17 as claimed: findTransits gives one Reduce for every pair (suffix
\* window of the stack, left-hand side) listed in the rules table, for all
\* matching window lengths at once, and none for any other window.
C17_ReducePerPair ==
    kind = "CFG" =>
        \A k \in 1..Len(frames) :
            frames[k].pc = "loop" =>
                /\ ReducePairs(frames[k]) = RulePairs(frames[k])
                /\ Len(SelectSeq(frames[k].transits, IsReduce))
                      = Cardinality(RulePairs(frames[k]))

\* C17 as amended: findTransits gives one Reduce for every rule line of
\* the file whose right-hand side is the tuple of symbols of a suffix
\* window of the stack (one per pair of window and left-hand side when no
\* rule line is written twice), for all matching window lengths at once,
\* and none for any other window.
C17_ReducePerRuleLine ==
    kind = "CFG" =>
        \A k \in 1..Len(frames) :
            frames[k].pc = "loop" =>
                /\ ReducePairs(frames[k]) = RulePairs(frames[k])
                /\ Len(SelectSeq(frames[k].transits, IsReduce))
                      = Cardinality({u \in RuleLines :
                            IsSuffixWindow(RightHandSide(u), frames[k].config.stack)})

\* Reduces over windows of two different lengths have been found in one
\* configuration.
C17_Witness ==
    /\ kind = "CFG"
    /\ status = "running"
    /\ top.pc = "loop"
    /\ \E a, b \in 1..Len(top.transits) :
          /\ IsReduce(top.transits[a])
          /\ IsReduce(top.transits[b])
          /\ Len(top.transits[a].fromState) < Len(top.transits[b].fromState)

\* C18: a dependency Shift moves the first buffer token onto the stack with
\* its symbol and index as they were, creates no token and leaves
\* Token.counter and the trace unchanged; a CFG Shift removes the first
\* buffer token, creates one token with a fresh index and the transition's
\* target as symbol, pushes it, and appends one trace entry that pairs the
\* new token with the removed one.
C18_ShiftEffect ==
    /\ counter = Len(created)
    /\ (last # <<>> /\ IsShift(last[1].transit)) =>
          LET c == last[1].config
              t == last[1].transit
              r == last[1].result
              n == r.newConfig
          IN  /\ r.returned = "config"
              /\ n.buffer = Tail(c.buffer)
              /\ IF kind = "DEP"
                 THEN /\ n.stack = Append(c.stack, c.buffer[1])
                      /\ n.tree = c.tree
                      /\ r.minted = <<>>
                 ELSE /\ Len(r.minted) = 1
                      /\ r.minted[1].symbol = t.toState
                      /\ created[Len(created)] = r.minted[1].index
                      /\ \A j \in 1..(Len(created) - 1) :
                            created[j] # r.minted[1].index
                      /\ n.stack = Append(c.stack, r.minted[1])
                      /\ n.tree = Append(c.tree,
                            <<ToString(r.minted[1].index), r.minted[1].symbol,
                              ToString(c.buffer[1].index), c.buffer[1].symbol>>)

\* A dependency Shift has been applied to a configuration with tokens on
\* its stack and a trace entry in its tree.
C18_Witness ==
    /\ kind = "DEP"
    /\ last # <<>>
    /\ IsShift(last[1].transit)
    /\ last[1].config.stack # <<>>
    /\ last[1].config.tree # <<>>


------------------------------------------------------------------------------
\* Conservation of the input tokens in the dependency system.

StrictlyIncreasing(s) == \A i \in 1..(Len(s) - 1) : s[i] < s[i + 1]

Indices(tokens) == [i \in 1..Len(tokens) |-> tokens[i].index]

IsSuffixOf(s, t) ==
    /\ Len(s) <= Len(t)
    /\ s = SubSeq(t, Len(t) - Len(s) + 1, Len(t))

\* C20: in every configuration the dependency system reaches from an input
\* of n tokens, len(stack) + len(buffer) + len(tree) = n, the buffer is a
\* suffix of the input token sequence, and the indices read along the stack
\* from bottom to top and then along the buffer are strictly increasing;
\* every printed dependency derivation has n - 1 trace entries.
C20_DepConservation ==
    kind = "DEP" =>
        /\ \A k \in 1..Len(frames) :
              LET c == frames[k].config IN
              /\ Len(c.stack) + Len(c.buffer) + Len(c.tree) = Len(inputString)
              /\ IsSuffixOf(c.buffer, inputList)
              /\ StrictlyIncreasing(Indices(c.stack \o c.buffer))
        /\ \A b \in 1..Len(output) :
              Len(output[b].lines) = Len(inputString) - 1

\* A dependency derivation of an input of three or more tokens has been
\* printed while an activation whose configuration already holds arcs is
\* still open.
C20_Witness ==
    /\ kind = "DEP"
    /\ Len(inputString) >= 3
    /\ output # <<>>
    /\ \E k \in 1..Len(frames) :
          /\ Len(frames[k].config.tree) >= 1
          /\ Len(frames[k].config.stack) >= 2

====
